---- MODULE Spec2Model ----
(***************************************************************************)
(* LangChainCompatibilityAdapter (the "Bridge") of                         *)
(* examples/slack-bot/src/agents/langchain_compatibility_adapter.py:       *)
(* the lazy creation of the agent and its event loop, the worker-thread    *)
(* protocol of process_user_question, and the history codec.               *)
(***************************************************************************)
EXTENDS Integers, Sequences, FiniteSets, TLC

\* ------------------------------------------------------------ bounds
\* Calls issued on the Bridge over its lifetime.
MaxCalls == 2
\* Longest history handed to the codec.
MaxLen == 2

\* ------------------------------------------------------------ values
\* self.agent / self.loop before first use (Optional[...] = None).
None == 0
\* Threads that call the Bridge.
Callers == {1, 2}
\* Exception classes an agent operation can raise, and the executor's timeout.
AgentExcs == {"RuntimeError", "Exception"}
\* isinstance(e, cls) for the classes the two except clauses name.
IsInstance(e, cls) == cls = "Exception" \/ e = cls
\* except clause of _setup_agent_if_needed (line 63).
SetupHandlerClass == "RuntimeError"
\* except clause of process_user_question (line 115), and a narrower variant.
ProcessHandlerNarrow == "RuntimeError"
ProcessHandlerClass == "Exception"
\* str(e): the executor's TimeoutError carries no text.
ExcText(e) == IF e = "TimeoutError" THEN "" ELSE e
ErrorPrefix == "Error in LangChain processing: "

\* ------------------------------------------------------------ History Codec
Texts == {"hi", "4"}
\* additional_kwargs maps, as sets of <<key, value>> pairs.
Metas == {{}, {<<"tool_data", "x">>}}
\* Message classes: HumanMessage, AIMessage, any other BaseMessage.
MsgKinds == {"Human", "AI", "System"}
Messages == [kind : MsgKinds, content : Texts, additional_kwargs : Metas]

\* dict.get(key, default)
Get(d, k, default) == IF k \in DOMAIN d THEN d[k] ELSE default

RoleOf(msg) ==
    IF msg.kind = "Human" THEN "user"
    ELSE IF msg.kind = "AI" THEN "assistant"
    ELSE "system"

SerializeOne(msg) ==
    [role |-> RoleOf(msg),
     content |-> [content |-> msg.content,
                  additional_kwargs |-> msg.additional_kwargs]]

\* _serialize_history
Serialize(messages) == [i \in 1..Len(messages) |-> SerializeOne(messages[i])]

\* HumanMessage(content=...), AIMessage(content=..., additional_kwargs=...)
HumanMessage(content) ==
    [kind |-> "Human", content |-> content, additional_kwargs |-> {}]
AIMessage(content, kwargs) ==
    [kind |-> "AI", content |-> content, additional_kwargs |-> kwargs]

\* Variant that builds the assistant record as the user record is built.
DeserializeAssistantNoKwargs(content, kwargs) == <<AIMessage(content, {})>>
\* Line 103: the record appended for role "assistant".
DeserializeAssistant(content, kwargs) == <<AIMessage(content, kwargs)>>

\* Variant that keeps an entry of any other role as a user record.
DeserializeOneKeepAll(entry) ==
    LET role == Get(entry, "role", "None")
        content_data == Get(entry, "content", <<>>)
        content == Get(content_data, "content", "")
        kwargs == Get(content_data, "additional_kwargs", {})
    IN  IF role = "assistant" THEN DeserializeAssistant(content, kwargs)
        ELSE <<HumanMessage(content)>>

\* Variant that restores the metadata of user records too.
DeserializeOneUserKwargs(entry) ==
    LET role == Get(entry, "role", "None")
        content_data == Get(entry, "content", <<>>)
        content == Get(content_data, "content", "")
        kwargs == Get(content_data, "additional_kwargs", {})
    IN  IF role = "user"
        THEN <<[kind |-> "Human", content |-> content, additional_kwargs |-> kwargs]>>
        ELSE IF role = "assistant" THEN DeserializeAssistant(content, kwargs)
        ELSE <<>>

\* One iteration of the loop of _deserialize_history: the records appended.
DeserializeOne(entry) ==
    LET role == Get(entry, "role", "None")
        content_data == Get(entry, "content", <<>>)
        content == Get(content_data, "content", "")
        kwargs == Get(content_data, "additional_kwargs", {})
    IN  IF role = "user" THEN <<HumanMessage(content)>>
        ELSE IF role = "assistant" THEN DeserializeAssistant(content, kwargs)
        ELSE <<>>

RECURSIVE Deserialize(_)
\* _deserialize_history
Deserialize(history) ==
    IF history = <<>> THEN <<>>
    ELSE DeserializeOne(Head(history)) \o Deserialize(Tail(history))

\* ------------------------------------------------------------ Bridge state
VARIABLES
    agent,      \* self.agent: None or the id of an agent in `agents`
    loop,       \* self.loop: None or the id of a loop in `loops`
    loops,      \* every event loop created by asyncio.new_event_loop()
    agents,     \* every agent create_malloy_agent() has returned
    installs,   \* every asyncio.set_event_loop(l) made: <<thread, l>>
    workers,    \* every thread a ThreadPoolExecutor of the Bridge has started
    pc,         \* per caller: where its current call stands
    call,       \* per caller: the current call
    result,     \* per caller: what its last call gave back
    ncalls,     \* calls issued so far
    trace,      \* agent operations started, in order
    overlap,    \* whether callers may issue overlapping calls
    cPc, cMsgs, cWire, cOut,    \* the codec's input, wire form and output
    agent_kwargs,   \* self.agent_kwargs: the configuration given to __init__
    pass,       \* the last passthrough call and what it gave back
    asked       \* the arguments of every agent.process_question call, in order

bridgeVars == <<agent, loop, loops, agents, installs, workers, pc, call,
                result, ncalls, trace, overlap, agent_kwargs, pass, asked>>
codecVars == <<cPc, cMsgs, cWire, cOut>>
vars == <<agent, loop, loops, agents, installs, workers, pc, call,
          result, ncalls, trace, overlap, cPc, cMsgs, cWire, cOut,
          agent_kwargs, pass, asked>>

CallerThread(c) == <<"caller", c>>
WorkerThread(w) == <<"worker", w>>

\* What agent.process_question and agent.get_conversation_history hand back.
Responses == {"4", "sorry"}
Histories == {<<>>, <<HumanMessage("hi"), AIMessage("4", {<<"tool_data", "x">>})>>}

\* The question a caller asks.
Questions == {"2+2"}
\* The history argument of process_user_question (line 106): left out
\* (None), or a list of wire entries, empty or not.
NoHistoryArg == [given |-> FALSE, value |-> <<>>]
HistArgs ==
    {NoHistoryArg,
     [given |-> TRUE, value |-> <<>>],
     [given |-> TRUE, value |-> Serialize(<<HumanMessage("hi")>>)]}
\* Line 111: executor.submit(self._run_question_in_new_loop, user_question,
\* history) hands both arguments to the worker.
SubmitArgs(user_question, history) == <<user_question, history>>
\* Variant of the worker that hands history on to the agent.
ProcessQuestionArgsWithHistory(question, history) == <<question, history>>
\* Line 132: self.agent.process_question(question).
ProcessQuestionArgs(question, history) == <<question>>

NoCall == [no |-> 0, op |-> "none", amb |-> FALSE, wk |-> 0, pend |-> "",
           drv |-> 0, ag |-> 0, q |-> "", hist |-> NoHistoryArg]
NoRes == [kind |-> "none", exc |-> "", success |-> FALSE, response |-> "",
          hist |-> <<>>, agent |-> 0, loop |-> 0]
ExcRes(e) == [NoRes EXCEPT !.kind = "exc", !.exc = e]
NoResult == [kind |-> "none", exc |-> "", tuple |-> <<>>]
Returned(t) == [kind |-> "return", exc |-> "", tuple |-> t]
Raised(e) == [kind |-> "raise", exc |-> e, tuple |-> <<>>]

\* Lines 116-118: the failure tuple of process_user_question.
FailTuple(e) == Returned(<<FALSE, <<ErrorPrefix, ExcText(e)>>, <<>>>>)

\* What the caller gets when exception e leaves _setup_agent_if_needed or the
\* with-block of process_user_question (lines 107, 115-118).
Outcome(c, e) ==
    IF call[c].op = "question" /\ IsInstance(e, ProcessHandlerClass)
    THEN FailTuple(e)
    ELSE Raised(e)

\* Variant of line 38 that sets up on every call.
NeedsSetupAlways(a) == TRUE
\* Line 38: if self.agent is None
NeedsSetup(a) == a = None

\* Variant of the executor that does not join its thread on exit.
ShutdownNoWait == FALSE
\* ThreadPoolExecutor.__exit__ (lines 59, 110): shutdown(wait=True).
ShutdownWaits == TRUE

\* Variant of the worker that makes itself a loop instead of rebinding.
WorkerOwnLoop(l) == Len(loops) + 1
\* Lines 126, 132: the loop the question worker installs and drives.
WorkerTargetLoop(l) == l

NewLoop(thread, c) ==
    [thread |-> thread, no |-> call[c].no, amb |-> call[c].amb, closed |-> FALSE]
NewWorker(c, kind, st) ==
    [owner |-> c, no |-> call[c].no, kind |-> kind, st |-> st, loop |-> 0,
     agent |-> 0, res |-> NoRes, args |-> <<>>]
Op(name, no, a, l) == [op |-> name, no |-> no, agent |-> a, loop |-> l]

WorkerDone(c) == workers[call[c].wk].st = "done"

\* ------------------------------------------------------------ passthrough values
\* **kwargs of __init__ (line 30): nothing supplied, or provider and endpoint.
NoConfig == <<>>
Configs == {NoConfig, [llm_provider |-> "openai", mcp_url |-> "http://mcp"]}

\* Variant that takes every Bridge for a readied one.
HasAgentAlways(a) == TRUE
\* Lines 142, 180, 219, 230, 238, 248: if self.agent / if not self.agent.
HasAgent(a) == a # None
\* Line 214: "setup_complete": self.agent is not None.
SetupComplete(a) == a # None
\* except Exception of the passthrough operations (lines 173, 203, 223, 233, 241).
PassthroughHandlerClass == "Exception"

\* tool.args_schema: absent, or an object whose schema() gives a dict.
NoSchema == [has |-> FALSE, schema |-> <<>>]
Schema(d) == [has |-> TRUE, schema |-> d]
\* self.agent.tools of a readied agent: two tools share a name.
AgentTools ==
    <<[name |-> "describe", description |-> "first", args_schema |-> NoSchema],
      [name |-> "query", description |-> "run sql",
       args_schema |-> Schema([properties |-> {"sql"}, required |-> <<"sql">>,
                               title |-> "q"])],
      [name |-> "describe", description |-> "second",
       args_schema |-> Schema([properties |-> {"model"}])]>>
\* What self.agent.tools gives: nothing before setup filled it, else the tools.
ToolLists == {<<>>, AgentTools}
\* tool_name arguments of call_tool.
ToolNames == {"describe", "query", "nonexistent_tool"}

\* Lines 151-167: the descriptor of one tool.
ToolDescriptor(tool) ==
    LET schema == IF tool.args_schema.has THEN tool.args_schema.schema ELSE <<>>
    IN  [name |-> tool.name,
         description |-> tool.description,
         parameters |-> [type |-> "object",
                         properties |-> Get(schema, "properties", {}),
                         required |-> Get(schema, "required", <<>>)]]

\* Variant of the search that keeps the last tool with the name.
LastMatch(tools, tool_name) ==
    IF \E i \in 1..Len(tools) : tools[i].name = tool_name
    THEN CHOOSE i \in 1..Len(tools) :
             /\ tools[i].name = tool_name
             /\ \A j \in (i + 1)..Len(tools) : tools[j].name # tool_name
    ELSE 0
\* Lines 185-189: the first tool whose name equals tool_name, 0 for None.
FirstMatch(tools, tool_name) ==
    IF \E i \in 1..Len(tools) : tools[i].name = tool_name
    THEN CHOOSE i \in 1..Len(tools) :
             /\ tools[i].name = tool_name
             /\ \A j \in 1..(i - 1) : tools[j].name # tool_name
    ELSE 0

\* What tool.run(**kwargs) does (line 195): gives back a dict or another
\* value, or raises.
RunOutcomes ==
    {[exc |-> "", isdict |-> d, rows |-> "3"] : d \in BOOLEAN}
    \cup {[exc |-> e, isdict |-> FALSE, rows |-> ""] : e \in AgentExcs}
\* Lines 198-201: json.dumps(result, indent=2) for a dict, else str(result).
FormatResult(r) ==
    IF r.isdict THEN <<"{\n  \"rows\": \"", r.rows, "\"\n}">> ELSE <<r.rows>>
NotInitialized == <<"Error: LangChain agent not initialized">>
ToolNotFound(tool_name) == <<"Error: Tool '", tool_name, "' not found">>
ToolFailed(tool_name, e) == <<"Error calling tool ", tool_name, ": ", ExcText(e)>>

\* What the agent's own get_agent_info() reports: a map<string, any>.
AgentInfos ==
    {[agent_type |-> "langchain", tools_count |-> "3"],
     [llm_provider |-> "anthropic", setup_complete |-> FALSE]}
\* Line 221: the agent reports, or its get_agent_info() raises.
InfoOutcomes ==
    {[exc |-> "", info |-> i] : i \in AgentInfos}
    \cup {[exc |-> e, info |-> <<>>] : e \in AgentExcs}
\* dict.update (line 222): the keys of extra win.
Update(base, extra) ==
    [k \in DOMAIN base \cup DOMAIN extra |->
        IF k \in DOMAIN extra THEN extra[k] ELSE base[k]]
\* Lines 209-217.
BaseInfo ==
    [adapter_type |-> "LangChain",
     llm_provider |-> Get(agent_kwargs, "llm_provider", "unknown"),
     llm_model |-> Get(agent_kwargs, "llm_model", "unknown"),
     mcp_url |-> Get(agent_kwargs, "mcp_url", "unknown"),
     setup_complete |-> SetupComplete(agent),
     vertex_project_id |-> Get(agent_kwargs, "vertex_project_id", None),
     vertex_location |-> Get(agent_kwargs, "vertex_location", None)]

\* An agent operation a passthrough call invoked.
Touch(name, i) == [op |-> name, arg |-> i]
\* A passthrough call: its name and argument, what it gave back, the agent
\* operations it invoked, and for call_tool the tools it saw and how the run
\* of the tool ended.
NoPass == [op |-> "none", arg |-> "", kind |-> "none", value |-> <<>>,
           touched |-> <<>>, tools |-> <<>>, exc |-> ""]
PassReturn(o, a, v, t) ==
    [NoPass EXCEPT !.op = o, !.arg = a, !.kind = "return", !.value = v,
                   !.touched = t]
PassRaise(o, a, e, t) ==
    [NoPass EXCEPT !.op = o, !.arg = a, !.kind = "raise", !.value = <<e>>,
                   !.touched = t]

\* ------------------------------------------------------------ Init
CodecOff == cPc = "off" /\ cMsgs = <<>> /\ cWire = <<>> /\ cOut = <<>>

BridgeInit ==
    /\ agent = None
    /\ loop = None
    /\ loops = <<>>
    /\ agents = <<>>
    /\ installs = {}
    /\ workers = <<>>
    /\ pc = [c \in Callers |-> "idle"]
    /\ call = [c \in Callers |-> NoCall]
    /\ result = [c \in Callers |-> NoResult]
    /\ ncalls = 0
    /\ trace = <<>>
    /\ pass = NoPass
    /\ asked = <<>>

Init == BridgeInit /\ overlap = FALSE /\ CodecOff /\ agent_kwargs = NoConfig

\* Variant in which a call proceeds only while no other call is in progress.
MayEnterExclusive(c) == \A d \in Callers \ {c} : pc[d] = "idle"
\* Lines 36-38, 106-111: neither method takes a lock before it tests self.agent
\* or submits its work, so a call proceeds whatever other callers are doing.
MayEnter(c) == TRUE

\* loop.is_running(): some thread is inside run_until_complete on loop l.
LoopRunning(l) ==
    \/ \E d \in Callers : pc[d] \in {"direct_create", "direct_setup"} /\ call[d].drv = l
    \/ \E v \in 1..Len(workers) : /\ workers[v].st \in {"create", "setup", "answer"}
                                  /\ workers[v].loop = l

\* ------------------------------------------------------------ caller steps
\* A caller issues _setup_agent_if_needed ("ensure") or process_user_question
\* ("question"), on a thread with (amb) or without a running event loop.
StartCall(c, o, a, h) ==
    /\ pc[c] = "idle"
    /\ ncalls < MaxCalls
    /\ overlap \/ \A d \in Callers : pc[d] = "idle"
    /\ o # "question" => h = NoHistoryArg
    /\ ncalls' = ncalls + 1
    /\ \E q \in Questions :
           call' = [call EXCEPT ![c] =
                       [NoCall EXCEPT !.no = ncalls + 1, !.op = o, !.amb = a,
                                      !.q = IF o = "question" THEN q ELSE "",
                                      !.hist = h]]
    /\ pc' = [pc EXCEPT ![c] = "check"]
    /\ result' = [result EXCEPT ![c] = NoResult]
    /\ pass' = NoPass
    /\ UNCHANGED <<agent, loop, loops, agents, installs, workers, trace, overlap>>
    /\ UNCHANGED <<codecVars, agent_kwargs, asked>>

\* Lines 38-45, 59-60: the agent test, asyncio.get_running_loop(), and in the
\* running-loop case the submit of setup_in_thread.
CheckAgent(c) ==
    /\ pc[c] = "check"
    /\ MayEnter(c)
    /\ IF ~NeedsSetup(agent)
       THEN /\ pc' = [pc EXCEPT ![c] = "ready"]
            /\ UNCHANGED <<workers, call>>
       ELSE IF call[c].amb
       THEN /\ workers' = Append(workers, NewWorker(c, "setup", "new"))
            /\ call' = [call EXCEPT ![c].wk = Len(workers) + 1]
            /\ pc' = [pc EXCEPT ![c] = "wait_setup"]
       ELSE /\ pc' = [pc EXCEPT ![c] = "handler"]
            /\ UNCHANGED <<workers, call>>
    /\ UNCHANGED <<agent, loop, loops, agents, installs, result, ncalls, trace, overlap>>
    /\ UNCHANGED <<codecVars, agent_kwargs, pass, asked>>

\* Lines 63-69: the except RuntimeError handler. It makes a loop on the calling
\* thread, installs it and starts run_until_complete(create_malloy_agent(...)),
\* which raises RuntimeError at once when a loop is running on this thread.
Handler(c) ==
    /\ pc[c] = "handler"
    /\ loops' = Append(loops, NewLoop(CallerThread(c), c))
    /\ loop' = Len(loops) + 1
    /\ installs' = installs \cup {<<CallerThread(c), Len(loops) + 1>>}
    /\ IF call[c].amb
       THEN /\ pc' = [pc EXCEPT ![c] = "idle"]
            /\ result' = [result EXCEPT ![c] = Outcome(c, "RuntimeError")]
            /\ UNCHANGED <<call, trace>>
       ELSE /\ pc' = [pc EXCEPT ![c] = "direct_create"]
            /\ call' = [call EXCEPT ![c].drv = Len(loops) + 1]
            /\ trace' = Append(trace, Op("construct", call[c].no, 0, Len(loops) + 1))
            /\ UNCHANGED result
    /\ UNCHANGED <<agent, agents, workers, ncalls, overlap>>
    /\ UNCHANGED <<codecVars, agent_kwargs, pass, asked>>

\* Lines 69-70: create_malloy_agent ends on the caller's thread; on success
\* self.agent is stored and run_until_complete(self.agent.setup()) starts.
\* When another thread is driving self.loop (overlapping callers only), the
\* unsynchronized is_running() test of run_until_complete either lets the
\* thread in or raises RuntimeError.
DirectCreateDone(c, out) ==
    /\ pc[c] = "direct_create"
    /\ IF out = "ok"
       THEN /\ agents' = Append(agents, [loop |-> call[c].drv, setupDone |-> FALSE])
            /\ agent' = Len(agents) + 1
            /\ \/ /\ call' = [call EXCEPT ![c].drv = loop, ![c].ag = Len(agents) + 1]
                  /\ trace' = Append(trace, Op("setup", call[c].no, Len(agents) + 1, loop))
                  /\ pc' = [pc EXCEPT ![c] = "direct_setup"]
                  /\ UNCHANGED result
               \/ /\ loop # call[c].drv
                  /\ LoopRunning(loop)
                  /\ call' = [call EXCEPT ![c].drv = 0]
                  /\ pc' = [pc EXCEPT ![c] = "idle"]
                  /\ result' = [result EXCEPT ![c] = Outcome(c, "RuntimeError")]
                  /\ UNCHANGED trace
       ELSE /\ pc' = [pc EXCEPT ![c] = "idle"]
            /\ result' = [result EXCEPT ![c] = Outcome(c, out)]
            /\ call' = [call EXCEPT ![c].drv = 0]
            /\ UNCHANGED <<agents, agent, trace>>
    /\ UNCHANGED <<loop, loops, installs, workers, ncalls, overlap>>
    /\ UNCHANGED <<codecVars, agent_kwargs, pass, asked>>

\* Lines 70-72: agent.setup() ends on the caller's thread.
DirectSetupDone(c, out) ==
    /\ pc[c] = "direct_setup"
    /\ call' = [call EXCEPT ![c].drv = 0]
    /\ IF out = "ok"
       THEN /\ agents' = [agents EXCEPT ![call[c].ag].setupDone = TRUE]
            /\ pc' = [pc EXCEPT ![c] = "ready"]
            /\ UNCHANGED result
       ELSE /\ pc' = [pc EXCEPT ![c] = "idle"]
            /\ result' = [result EXCEPT ![c] = Outcome(c, out)]
            /\ UNCHANGED agents
    /\ UNCHANGED <<agent, loop, loops, installs, workers, ncalls, trace, overlap>>
    /\ UNCHANGED <<codecVars, agent_kwargs, pass, asked>>

\* ------------------------------------------------------------ setup worker
\* Lines 49-52 of setup_in_thread: a new loop on the worker's thread, installed
\* there; run_until_complete(create_malloy_agent(...)) starts.
WNewLoop(w) ==
    /\ w \in 1..Len(workers)
    /\ workers[w].st = "new"
    /\ loops' = Append(loops, NewLoop(WorkerThread(w), workers[w].owner))
    /\ installs' = installs \cup {<<WorkerThread(w), Len(loops) + 1>>}
    /\ workers' = [workers EXCEPT ![w].st = "create", ![w].loop = Len(loops) + 1]
    /\ trace' = Append(trace, Op("construct", workers[w].no, 0, Len(loops) + 1))
    /\ UNCHANGED <<agent, loop, agents, pc, call, result, ncalls, overlap>>
    /\ UNCHANGED <<codecVars, agent_kwargs, pass, asked>>

\* Lines 52-53, 55-57: create_malloy_agent ends on the worker; on success
\* agent.setup() starts, on an exception the loop is closed and e re-raised.
WCreateDone(w, out) ==
    /\ w \in 1..Len(workers)
    /\ workers[w].st = "create"
    /\ IF out = "ok"
       THEN /\ agents' = Append(agents, [loop |-> workers[w].loop, setupDone |-> FALSE])
            /\ workers' = [workers EXCEPT ![w].st = "setup", ![w].agent = Len(agents) + 1]
            /\ trace' = Append(trace, Op("setup", workers[w].no, Len(agents) + 1, workers[w].loop))
            /\ UNCHANGED loops
       ELSE /\ loops' = [loops EXCEPT ![workers[w].loop].closed = TRUE]
            /\ workers' = [workers EXCEPT ![w].st = "done", ![w].res = ExcRes(out)]
            /\ UNCHANGED <<agents, trace>>
    /\ UNCHANGED <<agent, loop, installs, pc, call, result, ncalls, overlap>>
    /\ UNCHANGED <<codecVars, agent_kwargs, pass, asked>>

\* Lines 53-57: agent.setup() ends on the worker; return agent, new_loop, or
\* close the loop and re-raise.
WSetupDone(w, out) ==
    /\ w \in 1..Len(workers)
    /\ workers[w].st = "setup"
    /\ IF out = "ok"
       THEN /\ agents' = [agents EXCEPT ![workers[w].agent].setupDone = TRUE]
            /\ workers' = [workers EXCEPT ![w].st = "done",
                              ![w].res = [NoRes EXCEPT !.kind = "ok",
                                                       !.agent = workers[w].agent,
                                                       !.loop = workers[w].loop]]
            /\ UNCHANGED loops
       ELSE /\ loops' = [loops EXCEPT ![workers[w].loop].closed = TRUE]
            /\ workers' = [workers EXCEPT ![w].st = "done", ![w].res = ExcRes(out)]
            /\ UNCHANGED agents
    /\ UNCHANGED <<agent, loop, installs, pc, call, result, ncalls, trace, overlap>>
    /\ UNCHANGED <<codecVars, agent_kwargs, pass, asked>>

\* Line 61: future.result(timeout=60) hands back the worker's result, storing
\* self.agent, self.loop, or re-raises the worker's exception.
SetupResult(c) ==
    /\ pc[c] = "wait_setup"
    /\ WorkerDone(c)
    /\ LET res == workers[call[c].wk].res
       IN  IF res.kind = "ok"
           THEN /\ agent' = res.agent
                /\ loop' = res.loop
                /\ UNCHANGED call
           ELSE /\ call' = [call EXCEPT ![c].pend = res.exc]
                /\ UNCHANGED <<agent, loop>>
    /\ pc' = [pc EXCEPT ![c] = "exit_setup"]
    /\ UNCHANGED <<loops, agents, installs, workers, result, ncalls, trace, overlap>>
    /\ UNCHANGED <<codecVars, agent_kwargs, pass, asked>>

\* Line 61: the 60-unit wait expires before the worker is done.
SetupTimeout(c) ==
    /\ pc[c] = "wait_setup"
    /\ ~WorkerDone(c)
    /\ call' = [call EXCEPT ![c].pend = "TimeoutError"]
    /\ pc' = [pc EXCEPT ![c] = "exit_setup"]
    /\ UNCHANGED <<agent, loop, loops, agents, installs, workers, result, ncalls, trace, overlap>>
    /\ UNCHANGED <<codecVars, agent_kwargs, pass, asked>>

\* Lines 59, 63: the with-block is left, which joins the worker; then a pending
\* RuntimeError enters the handler and any other exception leaves the method.
ExitSetup(c) ==
    /\ pc[c] = "exit_setup"
    /\ ShutdownWaits => WorkerDone(c)
    /\ IF call[c].pend = ""
       THEN /\ pc' = [pc EXCEPT ![c] = "ready"]
            /\ UNCHANGED <<result, call>>
       ELSE IF IsInstance(call[c].pend, SetupHandlerClass)
       THEN /\ pc' = [pc EXCEPT ![c] = "handler"]
            /\ call' = [call EXCEPT ![c].pend = ""]
            /\ UNCHANGED result
       ELSE /\ pc' = [pc EXCEPT ![c] = "idle"]
            /\ result' = [result EXCEPT ![c] = Outcome(c, call[c].pend)]
            /\ UNCHANGED call
    /\ UNCHANGED <<agent, loop, loops, agents, installs, workers, ncalls, trace, overlap>>
    /\ UNCHANGED <<codecVars, agent_kwargs, pass, asked>>

\* Line 72: _setup_agent_if_needed returns to a caller that called it directly.
ReturnEnsure(c) ==
    /\ pc[c] = "ready"
    /\ call[c].op = "ensure"
    /\ pc' = [pc EXCEPT ![c] = "idle"]
    /\ result' = [result EXCEPT ![c] = Returned(<<>>)]
    /\ UNCHANGED <<agent, loop, loops, agents, installs, workers, call, ncalls, trace, overlap>>
    /\ UNCHANGED <<codecVars, agent_kwargs, pass, asked>>

\* ------------------------------------------------------------ question
\* Lines 110-111: a fresh executor, _run_question_in_new_loop submitted.
SpawnQuestion(c) ==
    /\ pc[c] = "ready"
    /\ call[c].op = "question"
    /\ MayEnter(c)
    /\ workers' = Append(workers,
                          [NewWorker(c, "question", "check") EXCEPT
                               !.args = SubmitArgs(call[c].q, call[c].hist)])
    /\ call' = [call EXCEPT ![c].wk = Len(workers) + 1]
    /\ pc' = [pc EXCEPT ![c] = "wait_question"]
    /\ UNCHANGED <<agent, loop, loops, agents, installs, result, ncalls, trace, overlap>>
    /\ UNCHANGED <<codecVars, agent_kwargs, pass, asked>>

\* Lines 122-132: the worker refuses an uninitialized Bridge, else installs
\* self.loop on its thread and starts run_until_complete(process_question).
\* When another thread is driving that loop, the unsynchronized is_running()
\* test of run_until_complete either lets the worker in or raises RuntimeError.
WCheck(w) ==
    /\ w \in 1..Len(workers)
    /\ workers[w].st = "check"
    /\ IF agent = None \/ loop = None
       THEN /\ workers' = [workers EXCEPT ![w].st = "done",
                                          ![w].res = ExcRes("RuntimeError")]
            /\ UNCHANGED <<installs, trace, asked>>
       ELSE /\ installs' = installs \cup {<<WorkerThread(w), WorkerTargetLoop(loop)>>}
            /\ \/ /\ workers' = [workers EXCEPT ![w].st = "answer", ![w].agent = agent,
                                                ![w].loop = WorkerTargetLoop(loop)]
                  /\ trace' = Append(trace, Op("answer", workers[w].no, agent,
                                               WorkerTargetLoop(loop)))
                  /\ asked' = Append(asked, ProcessQuestionArgs(workers[w].args[1],
                                                              workers[w].args[2]))
               \/ /\ LoopRunning(WorkerTargetLoop(loop))
                  /\ workers' = [workers EXCEPT ![w].st = "done", ![w].agent = agent,
                                                ![w].loop = WorkerTargetLoop(loop),
                                                ![w].res = ExcRes("RuntimeError")]
                  /\ UNCHANGED <<trace, asked>>
    /\ UNCHANGED <<agent, loop, loops, agents, pc, call, result, ncalls, overlap>>
    /\ UNCHANGED <<codecVars, agent_kwargs, pass>>

\* Lines 132-137: process_question and get_conversation_history end: the
\* worker returns (success, response, history) or re-raises.
WAnswerDone(w, out) ==
    /\ w \in 1..Len(workers)
    /\ workers[w].st = "answer"
    /\ workers' = [workers EXCEPT ![w].st = "done", ![w].res = out]
    /\ UNCHANGED <<agent, loop, loops, agents, installs, pc, call, result, ncalls, trace, overlap>>
    /\ UNCHANGED <<codecVars, agent_kwargs, pass, asked>>

AnswerOutcomes ==
    {[NoRes EXCEPT !.kind = "ok", !.success = s, !.response = r, !.hist = h] :
        s \in BOOLEAN, r \in Responses, h \in Histories}
    \cup {ExcRes(e) : e \in AgentExcs}

\* Line 112: future.result(timeout=300) hands back the worker's result or
\* re-raises its exception.
QuestionResult(c) ==
    /\ pc[c] = "wait_question"
    /\ WorkerDone(c)
    /\ call' = [call EXCEPT ![c].pend = workers[call[c].wk].res.exc]
    /\ pc' = [pc EXCEPT ![c] = "exit_question"]
    /\ UNCHANGED <<agent, loop, loops, agents, installs, workers, result, ncalls, trace, overlap>>
    /\ UNCHANGED <<codecVars, agent_kwargs, pass, asked>>

\* Line 112: the 300-unit wait expires before the worker is done.
QuestionTimeout(c) ==
    /\ pc[c] = "wait_question"
    /\ ~WorkerDone(c)
    /\ call' = [call EXCEPT ![c].pend = "TimeoutError"]
    /\ pc' = [pc EXCEPT ![c] = "exit_question"]
    /\ UNCHANGED <<agent, loop, loops, agents, installs, workers, result, ncalls, trace, overlap>>
    /\ UNCHANGED <<codecVars, agent_kwargs, pass, asked>>

\* Variant that returns without encoding the agent's history snapshot.
SuccessTupleNoHistory(res) == <<res.success, <<res.response>>, <<>>>>
\* Lines 113-114: the tuple process_user_question returns from a worker result.
SuccessTuple(res) == <<res.success, <<res.response>>, Serialize(res.hist)>>

\* Lines 110, 113-118: the with-block is left, which joins the worker; then the
\* tuple is returned, or the pending exception is turned into the failure tuple.
ExitQuestion(c) ==
    /\ pc[c] = "exit_question"
    /\ ShutdownWaits => WorkerDone(c)
    /\ pc' = [pc EXCEPT ![c] = "idle"]
    /\ result' = [result EXCEPT ![c] =
                      IF call[c].pend = ""
                      THEN Returned(SuccessTuple(workers[call[c].wk].res))
                      ELSE Outcome(c, call[c].pend)]
    /\ UNCHANGED <<agent, loop, loops, agents, installs, workers, call, ncalls, trace, overlap>>
    /\ UNCHANGED <<codecVars, agent_kwargs, pass, asked>>

\* ------------------------------------------------------------ passthrough
\* A passthrough call runs between the calls of serialized callers, or at any
\* moment when callers overlap, and counts as one call made on the Bridge.
\* None of them assigns a field of the Bridge.
PassFrame ==
    /\ overlap \/ \A c \in Callers : pc[c] = "idle"
    /\ ncalls < MaxCalls
    /\ ncalls' = ncalls + 1
    /\ UNCHANGED <<agent, loop, loops, agents, installs, workers, pc, call,
                   result, trace, overlap, agent_kwargs, asked, codecVars>>

\* Lines 139-175: get_available_tools. tools is what self.agent.tools gives,
\* out whether reading it or a schema() raises.
GetAvailableTools(tools, out) ==
    /\ PassFrame
    /\ pass' =
         IF ~HasAgent(agent)
         THEN PassReturn("get_available_tools", "", <<>>, <<>>)
         ELSE IF out = "ok"
         THEN PassReturn("get_available_tools", "",
                         [i \in 1..Len(tools) |-> ToolDescriptor(tools[i])],
                         <<Touch("tools", 0)>>)
         ELSE IF IsInstance(out, PassthroughHandlerClass)
         THEN PassReturn("get_available_tools", "", <<>>, <<Touch("tools", 0)>>)
         ELSE PassRaise("get_available_tools", "", out, <<Touch("tools", 0)>>)

\* Lines 177-204: call_tool. out is what tool.run gives or raises.
CallTool(tool_name, tools, out) ==
    /\ PassFrame
    /\ pass' =
         IF ~HasAgent(agent)
         THEN PassReturn("call_tool", tool_name, NotInitialized, <<>>)
         ELSE LET i == FirstMatch(tools, tool_name)
                  ran == <<Touch("tools", 0), Touch("run", i)>>
                  r == IF i = 0
                       THEN PassReturn("call_tool", tool_name,
                                       ToolNotFound(tool_name), <<Touch("tools", 0)>>)
                       ELSE IF out.exc = ""
                       THEN PassReturn("call_tool", tool_name, FormatResult(out), ran)
                       ELSE IF IsInstance(out.exc, PassthroughHandlerClass)
                       THEN PassReturn("call_tool", tool_name,
                                       ToolFailed(tool_name, out.exc), ran)
                       ELSE PassRaise("call_tool", tool_name, out.exc, ran)
              IN  [r EXCEPT !.tools = tools,
                            !.exc = IF i = 0 THEN "" ELSE out.exc]

\* Lines 206-226: get_agent_info. out is what the agent reports or raises.
GetAgentInfo(out) ==
    /\ PassFrame
    /\ pass' =
         IF ~HasAgent(agent)
         THEN PassReturn("get_agent_info", "", BaseInfo, <<>>)
         ELSE IF out.exc = ""
         THEN PassReturn("get_agent_info", "", Update(BaseInfo, out.info),
                         <<Touch("get_agent_info", 0)>>)
         ELSE IF IsInstance(out.exc, PassthroughHandlerClass)
         THEN PassReturn("get_agent_info", "",
                         Update(BaseInfo, [error |-> ExcText(out.exc)]),
                         <<Touch("get_agent_info", 0)>>)
         ELSE PassRaise("get_agent_info", "", out.exc,
                        <<Touch("get_agent_info", 0)>>)

\* Lines 228-242: clear_conversation and save_conversation(filepath) return
\* None; a failure of the agent's operation is printed.
Delegate(o, filepath, out) ==
    /\ PassFrame
    /\ pass' =
         IF ~HasAgent(agent)
         THEN PassReturn(o, filepath, <<>>, <<>>)
         ELSE IF out = "ok" \/ IsInstance(out, PassthroughHandlerClass)
         THEN PassReturn(o, filepath, <<>>, <<Touch(o, 0)>>)
         ELSE PassRaise(o, filepath, out, <<Touch(o, 0)>>)
ClearConversation(out) == Delegate("clear_conversation", "", out)
SaveConversation(out) == Delegate("save_conversation", "conv.json", out)

\* Lines 245-250: the mcp_client property: the agent's client, else None.
McpClient ==
    /\ PassFrame
    /\ pass' =
         IF ~HasAgent(agent)
         THEN PassReturn("mcp_client", "", <<None>>, <<>>)
         ELSE PassReturn("mcp_client", "", <<"mcp_client", agent>>,
                         <<Touch("mcp_client", 0)>>)

\* ------------------------------------------------------------ specification
Ops == {"ensure", "question"}
Outs == {"ok"} \cup AgentExcs

\* Every step of the Bridge, its workers and the agent; `answers` are the
\* outcomes the answer operation may have, `hists` the chat_history arguments
\* callers pass.
NextWith(answers, hists) ==
    \/ \E c \in Callers, o \in Ops, a \in BOOLEAN, h \in hists : StartCall(c, o, a, h)
    \/ \E c \in Callers : CheckAgent(c)
    \/ \E c \in Callers : Handler(c)
    \/ \E c \in Callers, out \in Outs : DirectCreateDone(c, out)
    \/ \E c \in Callers, out \in Outs : DirectSetupDone(c, out)
    \/ \E w \in 1..Len(workers) : WNewLoop(w)
    \/ \E w \in 1..Len(workers), out \in Outs : WCreateDone(w, out)
    \/ \E w \in 1..Len(workers), out \in Outs : WSetupDone(w, out)
    \/ \E c \in Callers : SetupResult(c)
    \/ \E c \in Callers : SetupTimeout(c)
    \/ \E c \in Callers : ExitSetup(c)
    \/ \E c \in Callers : ReturnEnsure(c)
    \/ \E c \in Callers : SpawnQuestion(c)
    \/ \E w \in 1..Len(workers) : WCheck(w)
    \/ \E w \in 1..Len(workers), out \in answers : WAnswerDone(w, out)
    \/ \E c \in Callers : QuestionResult(c)
    \/ \E c \in Callers : QuestionTimeout(c)
    \/ \E c \in Callers : ExitQuestion(c)

Next == NextWith(AnswerOutcomes, {NoHistoryArg})

Spec == Init /\ [][Next]_vars

\* The same Bridge with callers that do not wait for each other. The answer
\* operation either succeeds with one fixed answer or raises.
OverlapAnswers ==
    {[NoRes EXCEPT !.kind = "ok", !.success = TRUE, !.response = "4"]}
    \cup {ExcRes(e) : e \in AgentExcs}
\* The Bridge with its passthrough operations, built from any configuration.
PassInit == BridgeInit /\ overlap = FALSE /\ CodecOff /\ agent_kwargs \in Configs
PassNext ==
    \/ NextWith(OverlapAnswers, {NoHistoryArg})
    \/ \E tools \in ToolLists, out \in Outs : GetAvailableTools(tools, out)
    \/ \E n \in ToolNames, tools \in ToolLists, out \in RunOutcomes :
           CallTool(n, tools, out)
    \/ \E out \in InfoOutcomes : GetAgentInfo(out)
    \/ \E out \in Outs : ClearConversation(out)
    \/ \E out \in Outs : SaveConversation(out)
    \/ McpClient
PassSpec == PassInit /\ [][PassNext]_vars

\* The Bridge with callers that pass a history argument.
HistNext == NextWith(OverlapAnswers, HistArgs)
HistSpec == Init /\ [][HistNext]_vars

OverlapInit == BridgeInit /\ overlap = TRUE /\ CodecOff /\ agent_kwargs = NoConfig
OverlapNext == NextWith(OverlapAnswers, {NoHistoryArg})
OverlapSpec == OverlapInit /\ [][OverlapNext]_vars

\* The threads of the Bridge are scheduled fairly: every step of the Bridge's
\* own code that can be taken is taken. When, and whether, an agent operation
\* ends (DirectCreateDone, DirectSetupDone, WCreateDone, WSetupDone,
\* WAnswerDone) and whether another call is issued is up to the environment.
BridgeStep ==
    \/ \E c \in Callers : CheckAgent(c) \/ Handler(c) \/ SetupResult(c) \/ ExitSetup(c)
    \/ \E c \in Callers : ReturnEnsure(c) \/ SpawnQuestion(c)
    \/ \E c \in Callers : QuestionResult(c) \/ ExitQuestion(c)
    \/ \E w \in 1..Len(workers) : WNewLoop(w) \/ WCheck(w)

TimerStep == \E c \in Callers : SetupTimeout(c) \/ QuestionTimeout(c)

FairSpec == Init /\ [][Next]_vars /\ WF_vars(BridgeStep) /\ WF_vars(TimerStep)

\* ------------------------------------------------------------ codec runs
RECURSIVE SeqsUpTo(_, _)
SeqsUpTo(S, n) ==
    IF n = 0 THEN {<<>>}
    ELSE LET shorter == SeqsUpTo(S, n - 1)
         IN  shorter \cup {Append(q, x) : q \in {t \in shorter : Len(t) = n - 1}, x \in S}

\* Entries of an encoded history as a caller may hand them to decode: any role
\* or none, a content dict with either key present or absent, or no content.
WireRoles == {"user", "assistant", "system", "tool"}
WireContents ==
    [content : Texts, additional_kwargs : Metas]
    \cup [content : Texts] \cup [additional_kwargs : Metas] \cup {<<>>}
WireEntries ==
    [role : WireRoles, content : WireContents] \cup [content : WireContents]
    \cup [role : WireRoles]

CodecInit ==
    /\ BridgeInit
    /\ overlap = FALSE
    /\ agent_kwargs = NoConfig
    /\ cOut = <<>>
    /\ \/ cPc = "messages" /\ cMsgs \in SeqsUpTo(Messages, MaxLen) /\ cWire = <<>>
       \/ cPc = "wire" /\ cMsgs = <<>> /\ cWire \in SeqsUpTo(WireEntries, MaxLen)

\* encode: _serialize_history applied to the messages.
Encode ==
    /\ cPc = "messages"
    /\ cWire' = Serialize(cMsgs)
    /\ cPc' = "encoded"
    /\ UNCHANGED <<cMsgs, cOut>>
    /\ UNCHANGED bridgeVars

\* decode: _deserialize_history applied to the wire form.
Decode ==
    /\ cPc \in {"encoded", "wire"}
    /\ cOut' = Deserialize(cWire)
    /\ cPc' = IF cPc = "encoded" THEN "roundtrip" ELSE "decoded"
    /\ UNCHANGED <<cMsgs, cWire>>
    /\ UNCHANGED bridgeVars

CodecNext == Encode \/ Decode

CodecSpec == CodecInit /\ [][CodecNext]_vars

\* ------------------------------------------------------------ properties
Idle(c) == pc[c] = "idle" /\ call[c].no >= 1
WorkerIds == 1..Len(workers)
LoopIds == 1..Len(loops)

\* The threads inside run_until_complete on loop l at this instant.
Drivers(l) ==
    {CallerThread(c) : c \in {d \in Callers : /\ pc[d] \in {"direct_create", "direct_setup"}
                                              /\ call[d].drv = l}}
    \cup {WorkerThread(w) : w \in {v \in WorkerIds : /\ workers[v].st \in {"create", "setup", "answer"}
                                                      /\ workers[v].loop = l}}

\* The call of caller c ended inside _setup_agent_if_needed, by an exception.
SetupFailed(c) ==
    /\ Idle(c)
    /\ call[c].wk = 0 \/ workers[call[c].wk].kind = "setup"
    /\ result[c] # Returned(<<>>)

\* The process_user_question call of caller c ended by a failure: in setup, by
\* an exception of the worker, or by the timeout of the wait.
QuestionFailed(c) ==
    /\ Idle(c)
    /\ call[c].op = "question"
    /\ SetupFailed(c) \/ call[c].pend # ""

ContainsError(msg) == \E i \in 1..Len(msg) : msg[i] = ErrorPrefix

\* C1 (as stated): over the Bridge's lifetime exactly one Agent Handle and one
\* Scheduler Instance are ever created, whatever the outcome of each
\* ensure_ready call.
C1_ExactlyOneEverCreated == Len(loops) <= 1 /\ Len(agents) <= 1

\* C1 (amended): once the Bridge has stored an Agent Handle, no step of any
\* later call creates a Scheduler Instance or an Agent Handle, and the stored
\* handle and scheduler never change; a call that finds no handle stored
\* creates again.
C1_NoCreationOnceStored ==
    [][agent # None => /\ Len(loops') = Len(loops)
                       /\ Len(agents') = Len(agents)
                       /\ agent' = agent
                       /\ loop' = loop]_vars

\* C1 witness: a second call has passed the agent test of a Bridge whose first
\* call created the one agent and the one loop.
C1_Witness ==
    \E c \in Callers : /\ call[c].no >= 2
                       /\ pc[c] = "ready"
                       /\ Len(agents) = 1
                       /\ Len(loops) = 1
                       /\ agents[1].setupDone

\* C2: the answer operation is never running on an Agent Handle whose setup
\* has not run to successful completion.
C2_SetupBeforeAnswer ==
    \A w \in WorkerIds :
        workers[w].st = "answer" => agents[workers[w].agent].setupDone

\* C3: once the 300-unit wait for the answer has expired, process_user_question
\* eventually returns (false, a message containing "Error", empty history).
C3_TimeoutReturns ==
    \A c \in Callers :
        (pc[c] = "exit_question" /\ call[c].pend = "TimeoutError")
            ~> (pc[c] = "idle" /\ result[c] = FailTuple("TimeoutError"))

\* C4: every answer operation is driven on the Scheduler Instance on which its
\* Agent Handle was constructed and set up, and no question worker creates a
\* Scheduler Instance.
C4_SameScheduler ==
    /\ \A i \in 1..Len(trace) :
          trace[i].op = "answer" =>
              /\ trace[i].loop = agents[trace[i].agent].loop
              /\ \A j \in 1..Len(trace) :
                    (trace[j].op = "setup" /\ trace[j].agent = trace[i].agent)
                        => trace[j].loop = trace[i].loop
    /\ \A l \in LoopIds :
          loops[l].thread[1] = "worker" => workers[loops[l].thread[2]].kind = "setup"

\* C4 witness: a later call answers on the loop an earlier call made.
C4_Witness ==
    \E i \in 1..Len(trace) :
        /\ trace[i].op = "answer"
        /\ trace[i].no >= 2
        /\ loops[trace[i].loop].no < trace[i].no
        /\ agents[trace[i].agent].setupDone

\* C5: process_user_question never raises to its caller, and a call that
\* failed returns (false, a message containing "Error", empty history).
C5_NeverRaises ==
    \A c \in Callers :
        (Idle(c) /\ call[c].op = "question") =>
            /\ result[c].kind = "return"
            /\ QuestionFailed(c) =>
                  /\ result[c].tuple[1] = FALSE
                  /\ ContainsError(result[c].tuple[2])
                  /\ result[c].tuple[3] = <<>>

\* C5 witness: a call has returned after an agent operation raised something
\* other than a RuntimeError during lazy initialization.
C5_Witness ==
    \E c \in Callers :
        /\ QuestionFailed(c)
        /\ SetupFailed(c)
        /\ result[c] = FailTuple("Exception")

\* C6: with a serialized caller at most one thread drives a Scheduler Instance
\* at any instant, and the answer operations run one at a time in the order of
\* their calls.
C6_OneDriver ==
    ~overlap =>
        /\ \A l \in LoopIds : Cardinality(Drivers(l)) <= 1
        /\ Cardinality({w \in WorkerIds : workers[w].st = "answer"}) <= 1
        /\ \A i, j \in 1..Len(trace) :
              (i < j /\ trace[i].op = "answer" /\ trace[j].op = "answer")
                  => trace[i].no < trace[j].no

\* C6 witness: an answer is running for a call issued after another caller's
\* call ended in a timeout.
C6_Witness ==
    \E c, d \in Callers :
        /\ Idle(d)
        /\ call[d].op = "question"
        /\ call[d].pend = "TimeoutError"
        /\ call[c].no > call[d].no
        /\ pc[c] = "wait_question"
        /\ workers[call[c].wk].st = "answer"

\* C7: a Scheduler Instance made during a call whose thread has a running
\* scheduler is made on a worker thread, and never on the caller's thread.
C7_AmbientOnlyOnWorker ==
    \A l \in LoopIds : loops[l].amb => loops[l].thread[1] = "worker"

\* C8: after a failed ensure_ready on the running-scheduler path, every
\* Scheduler Instance that call created is closed.
C8_ClosedOnFailure ==
    \A c \in Callers :
        (SetupFailed(c) /\ call[c].amb) =>
            \A l \in LoopIds : loops[l].no = call[c].no => loops[l].closed

\* The agent operations started by call n, in order.
OpsOfCall(n) == SelectSeq(trace, LAMBDA e : e.no = n)

\* The first call on the Bridge was a process_user_question by caller c, on a
\* thread without a running scheduler, it has returned, and each of its agent
\* operations succeeded.
FirstCallAllSucceeded(c) ==
    /\ Idle(c)
    /\ call[c].no = 1
    /\ call[c].op = "question"
    /\ ~call[c].amb
    /\ call[c].wk # 0
    /\ workers[call[c].wk].res.kind = "ok"
    /\ workers[call[c].wk].res.success

\* What C9 promises of such a call: construct, setup, answer, once each and in
\* that order, and (true, the response, encode(the history snapshot)) returned.
ScenarioAResult(c) ==
    /\ OpsOfCall(1) = <<Op("construct", 1, 0, 1), Op("setup", 1, 1, 1),
                        Op("answer", 1, 1, 1)>>
    /\ agents[1].setupDone
    /\ result[c] = Returned(<<TRUE, <<workers[call[c].wk].res.response>>,
                              Serialize(workers[call[c].wk].res.hist)>>)

\* C9 (as stated): the first process_user_question on a fresh Bridge, without a
\* running scheduler on the caller's thread and with every agent operation
\* succeeding, constructs, sets up and answers once each in that order, and
\* returns (true, the response, encode(the history snapshot)).
C9_ScenarioA_AsStated ==
    \A c \in Callers : FirstCallAllSucceeded(c) => ScenarioAResult(c)

\* C9 (amended): the same, provided the answer operation ends before the
\* 300-unit wait expires.
C9_ScenarioA ==
    \A c \in Callers :
        (FirstCallAllSucceeded(c) /\ call[c].pend # "TimeoutError")
            => ScenarioAResult(c)

\* C9 witness: such a first call has returned a non-empty encoded history.
C9_Witness ==
    \E c \in Callers :
        /\ Idle(c)
        /\ call[c].no = 1
        /\ call[c].op = "question"
        /\ ~call[c].amb
        /\ result[c].kind = "return"
        /\ result[c].tuple[1] = TRUE
        /\ Len(result[c].tuple[3]) = 2

\* C10: for every assistant Message Record M, decode(encode([M])) = [M].
C10_AssistantRoundTrip ==
    (cPc = "roundtrip" /\ Len(cMsgs) = 1 /\ cMsgs[1].kind = "AI") => cOut = cMsgs

\* C10 witness: an assistant record with a non-empty metadata map has made the
\* round trip.
C10_Witness ==
    /\ cPc = "roundtrip"
    /\ Len(cMsgs) = 1
    /\ cMsgs[1].kind = "AI"
    /\ cMsgs[1].additional_kwargs # {}
    /\ cOut # <<>>

\* The entries of an encoded history whose role is "user" or "assistant".
KeptEntries(wire) ==
    SelectSeq(wire, LAMBDA e : Get(e, "role", "None") \in {"user", "assistant"})

\* C11: decode keeps exactly the entries of role "user" or "assistant", in
\* their order, and drops every other entry (any other role, or none); so the
\* output is no longer than the input, and empty for system entries only.
C11_RoleFiltering ==
    cPc \in {"decoded", "roundtrip"} =>
        LET kept == KeptEntries(cWire)
        IN  /\ Len(cOut) = Len(kept)
            /\ \A i \in 1..Len(kept) :
                  /\ cOut[i].kind = IF kept[i].role = "user" THEN "Human" ELSE "AI"
                  /\ cOut[i].content = Get(Get(kept[i], "content", <<>>), "content", "")
            /\ Len(cOut) <= Len(cWire)
            /\ (\A i \in 1..Len(cWire) : Get(cWire[i], "role", "None") = "system")
                  => cOut = <<>>

\* C11 witness: of a system entry and an entry without a role around an
\* assistant entry, decode has kept the assistant entry alone.
C11_Witness ==
    /\ cPc = "decoded"
    /\ Len(cWire) = 2
    /\ Get(cWire[1], "role", "None") \in {"system", "None"}
    /\ Get(cWire[2], "role", "None") = "assistant"
    /\ Len(cOut) = 1
    /\ cOut[1].kind = "AI"

\* C12 (as stated): for every record M that is not an assistant record,
\* decode(encode([M])) differs from [M].
C12_OnlyAssistantRoundTrips ==
    (cPc = "roundtrip" /\ Len(cMsgs) = 1 /\ cMsgs[1].kind # "AI") => cOut # cMsgs

\* C12 (amended): decode(encode([M])) differs from [M] for every system/other
\* record and every user record with a non-empty metadata map; a user record
\* with an empty metadata map makes the round trip unchanged.
C12_LossyRoundTrip ==
    (cPc = "roundtrip" /\ Len(cMsgs) = 1 /\ cMsgs[1].kind # "AI") =>
        IF cMsgs[1].kind = "Human" /\ cMsgs[1].additional_kwargs = {}
        THEN cOut = cMsgs
        ELSE cOut # cMsgs

\* C12 witness: a user record with metadata has come back without it.
C12_Witness ==
    /\ cPc = "roundtrip"
    /\ Len(cMsgs) = 1
    /\ cMsgs[1].kind = "Human"
    /\ cMsgs[1].additional_kwargs # {}
    /\ Len(cOut) = 1
    /\ cOut[1].additional_kwargs = {}

\* C18: when a call has returned or raised to its caller, every worker thread
\* it spawned has terminated, also when its wait timed out.
C18_NoWorkerLeftBehind ==
    \A w \in WorkerIds :
        (pc[workers[w].owner] = "idle" \/ call[workers[w].owner].no # workers[w].no)
            => workers[w].st = "done"

\* C18 witness: a call whose wait for the worker timed out has returned.
C18_Witness ==
    \E c \in Callers :
        /\ Idle(c)
        /\ call[c].wk # 0
        /\ call[c].pend = "TimeoutError"
        /\ workers[call[c].wk].st = "done"

\* C19: with a serialized caller, between calls, a stored Agent Handle comes
\* with a stored Scheduler Instance that is open and is the one the handle was
\* constructed on.
C19_HandleSchedulerPairing ==
    (~overlap /\ (\A c \in Callers : pc[c] = "idle") /\ agent # None) =>
        /\ loop # None
        /\ ~loops[loop].closed
        /\ agents[agent].loop = loop

\* C19 witness: the Bridge holds a handle between calls after an
\* initialization attempt that failed.
C19_Witness ==
    /\ \A c \in Callers : pc[c] = "idle"
    /\ agent # None
    /\ \E c \in Callers : SetupFailed(c)

\* C17: the Bridge enforces no mutual exclusion: a call at the agent test, or
\* about to submit its question worker, can take that step whatever the other
\* callers are doing; so overlapping calls reach the state of C17_Witness.
C17_NoMutualExclusion ==
    \A c \in Callers :
        /\ pc[c] = "check" => ENABLED CheckAgent(c)
        /\ (pc[c] = "ready" /\ call[c].op = "question") => ENABLED SpawnQuestion(c)

\* C17 witness: two overlapping first calls have both found the Agent Handle
\* absent and each constructed an agent on a scheduler of its own, and the two
\* question workers are live at the same time on the same Scheduler Instance.
C17_Witness ==
    /\ Len(agents) = 2
    /\ Len(loops) = 2
    /\ agents[1].loop # agents[2].loop
    /\ \E v, w \in WorkerIds :
          /\ v # w
          /\ workers[v].kind = "question" /\ workers[w].kind = "question"
          /\ workers[v].st = "answer" /\ workers[w].st = "answer"
          /\ workers[v].loop = workers[w].loop
          /\ workers[v].no # workers[w].no

\* The last call on the Bridge was the passthrough operation o.
LastPass(o) == pass.op = o

\* C13: call_tool never raises; without an Agent Handle it returns exactly
\* "Error: LangChain agent not initialized" and touches no tool; with one, a
\* name that matches no tool returns exactly "Error: Tool '<name>' not found",
\* and a name that matches runs the first tool with that name, a failure of
\* which comes back as an error string.
C13_CallToolNeverRaises ==
    LastPass("call_tool") =>
        /\ pass.kind = "return"
        /\ agent = None =>
               /\ pass.value = <<"Error: LangChain agent not initialized">>
               /\ pass.touched = <<>>
        /\ agent # None =>
               LET matches == {i \in 1..Len(pass.tools) : pass.tools[i].name = pass.arg}
                   runs == {i \in 1..Len(pass.touched) : pass.touched[i].op = "run"}
               IN  IF matches = {}
                   THEN /\ pass.value = <<"Error: Tool '", pass.arg, "' not found">>
                        /\ runs = {}
                   ELSE /\ Cardinality(runs) = 1
                        /\ \A i \in runs : /\ pass.touched[i].arg \in matches
                                           /\ \A m \in matches : pass.touched[i].arg <= m
                        /\ pass.exc # "" =>
                               pass.value = <<"Error calling tool ", pass.arg, ": ", pass.exc>>

\* C13 witness: call_tool("describe") on a readied Bridge ran the first of the
\* two tools of that name, the tool raised, and an error string came back.
C13_Witness ==
    /\ LastPass("call_tool")
    /\ agent # None
    /\ pass.arg = "describe"
    /\ pass.tools = AgentTools
    /\ pass.touched = <<Touch("tools", 0), Touch("run", 1)>>
    /\ pass.exc = "RuntimeError"
    /\ pass.kind = "return"

\* C14: get_info returns, without raising, a map whose setup_complete is true
\* exactly when the Agent Handle exists, also when the agent's own info is
\* merged in or cannot be had; without a handle the provider, model and
\* endpoint fields the configuration leaves out are "unknown".
C14_SetupCompleteFollowsHandle ==
    LastPass("get_agent_info") =>
        /\ pass.kind = "return"
        /\ pass.value.setup_complete = (agent # None)
        /\ agent = None =>
               \A k \in {"llm_provider", "llm_model", "mcp_url"} :
                   k \notin DOMAIN agent_kwargs => pass.value[k] = "unknown"

\* A step that is a passthrough call.
PassStep == ncalls' = ncalls + 1 /\ pass'.op # "none"

\* C15: a passthrough call leaves the Agent Handle, the Scheduler Instance and
\* the configuration as they were and creates nothing; on a Bridge without a
\* handle it invokes no agent operation: get_available_tools gives the empty
\* sequence, clear and save do nothing, mcp_client gives None.
C15_PassthroughFrame ==
    [][PassStep =>
        /\ agent' = agent
        /\ loop' = loop
        /\ agent_kwargs' = agent_kwargs
        /\ loops' = loops
        /\ agents' = agents
        /\ workers' = workers
        /\ trace' = trace
        /\ agent = None =>
               /\ pass'.touched = <<>>
               /\ pass'.kind = "return"
               /\ pass'.op = "get_available_tools" => pass'.value = <<>>
               /\ pass'.op \in {"clear_conversation", "save_conversation"} =>
                      pass'.value = <<>>
               /\ pass'.op = "mcp_client" => pass'.value = <<None>>]_vars

\* C15 witness: two passthrough calls were made on a Bridge that still has no
\* handle and no scheduler, the last being save_conversation.
C15_Witness ==
    /\ LastPass("save_conversation")
    /\ ncalls = 2
    /\ agent = None
    /\ loop = None
    /\ loops = <<>>
    /\ agents = <<>>

====
